---- MODULE Spec2Model ----
(***************************************************************************)
(* Model of custom_components/custom_conversation/cc_llm.py:               *)
(* async_update_llm_data, the per-turn collection of LLM API instances,    *)
(* the composition of the system prompt and its installation on the        *)
(* ChatLog.  One turn is a sequence of steps separated by the awaits of    *)
(* the coroutine; several turns run one after the other on one ChatLog.    *)
(***************************************************************************)
EXTENDS Integers, Sequences, FiniteSets, TLC

\* ---------------------------------------------------------------- bounds
MaxNames == 2          \* longest llm_api_names list that is enumerated
MaxTurns == 2          \* number of turns run on the chat log
MaxRequested == 3      \* names requested over all turns of the chat log

\* ------------------------------------------------------- python values
\* Optional[T]: None is the empty tuple, a value v is the 1-tuple <<v>>.
None == <<>>
Some(v) == <<v>>
IsNone(o) == Len(o) = 0
Val(o) == o[1]

\* Texts (str) are sequences of characters; NL is the character "\n".
NL == "\n"
EmptyText == <<>>

\* truth value of an Optional[str]: None and "" are falsy
TruthyText(o) == Len(o) > 0 /\ Len(o[1]) > 0

\* truth value of an Optional[list]: None and [] are falsy
TruthyList(o) == Len(o) > 0 /\ Len(o[1]) > 0

\* a or b
PyOr(a, b) == IF TruthyText(a) THEN a ELSE b

RECURSIVE JoinFrom(_, _, _)
JoinFrom(sep, parts, k) ==
    IF k > Len(parts) THEN <<>>
    ELSE IF k = Len(parts) THEN parts[k]
    ELSE parts[k] \o <<sep>> \o JoinFrom(sep, parts, k + 1)

\* sep.join(parts)
Join(sep, parts) == JoinFrom(sep, parts, 1)

\* ----------------------------------------------------- exception classes
HomeAssistantError == "HomeAssistantError"
TemplateError == "TemplateError"
ConverseError == "ConverseError"
CancelledError == "CancelledError"

\* homeassistant.exceptions: TemplateError derives from HomeAssistantError
IsInstance(exc, cls) ==
    \/ exc = cls
    \/ exc = TemplateError /\ cls = HomeAssistantError

\* ------------------------------------------------------------- providers
DOMAIN_ == "custom_conversation"
LLM_API_ID == "custom_llm_api"
ApiNames == {LLM_API_ID, "weather"}

\* isinstance(api.api, CustomLLMAPI)
IsCustomLLMAPI(api) == api = LLM_API_ID

\* llm_api.tools of the instance obtained for a name
ToolsOf(name) == IF name = LLM_API_ID THEN <<"t1", "t2">> ELSE <<"t3">>

\* text of the prompt the API of that name provides
PromptText(name) == IF name = LLM_API_ID THEN <<"c">> ELSE <<"w">>

\* a prompt is either a str or a (prompt object, str) tuple
PlainPrompt(text) == [isTuple |-> FALSE, handle |-> "", text |-> text]
TuplePrompt(handle, text) == [isTuple |-> TRUE, handle |-> handle, text |-> text]

\* values `await llm_api.api_prompt` can produce for the API of that name
ApiPromptValues(name) ==
    IF name = LLM_API_ID
    THEN {PlainPrompt(PromptText(name)), TuplePrompt("lf_api", PromptText(name))}
    ELSE {PlainPrompt(PromptText(name))}

\* values prompt_manager.async_get_base_prompt can produce
BasePromptValues ==
    {PlainPrompt(<<"B">>), TuplePrompt("lf_base", <<"B">>), PlainPrompt(EmptyText)}

\* outcome of an awaited call: a value or a raised exception
Ok(v) == [ok |-> TRUE, exc |-> "", value |-> v]
Raised(e) == [ok |-> FALSE, exc |-> e, value |-> PlainPrompt(EmptyText)]

GetApiOutcomes == {Ok(PlainPrompt(EmptyText)), Raised(HomeAssistantError)}
ApiPromptOutcomes(name) ==
    {Ok(v) : v \in ApiPromptValues(name)}
        \cup {Raised(HomeAssistantError), Raised(TemplateError)}
BasePromptOutcomes ==
    {Ok(v) : v \in BasePromptValues} \cup {Raised(TemplateError)}

\* the str of a prompt: `_, prompt_text = api_prompt` or the value itself
PromptTextOf(p) == p.text

\* PromptObjectOf that never takes the prompt object out of the tuple
PromptObjectOf_Dropped(p, prev) == prev

\* prompt_object after `prompt_object, prompt = prompt`; unchanged for a str
PromptObjectOf(p, prev) == IF p.isTuple THEN Some(p.handle) ELSE prev

\* llm.LLMContext created at the start of the turn
LLMContext(n) == [platform |-> DOMAIN_, turn |-> n]

\* the llm.APIInstance returned for a name
ResolvedInstance(name, ctx) ==
    [api |-> name,
     api_prompt |-> [awaitable |-> TRUE, text |-> EmptyText],
     llm_context |-> ctx,
     tools |-> ToolsOf(name),
     custom_serializer |-> "own"]

\* llm.APIInstance(api=api_instances[0].api, api_prompt=prompt, ...)
SyntheticInstance(insts, prompt_, ctx, tools_) ==
    [api |-> insts[1].api,
     api_prompt |-> [awaitable |-> FALSE, text |-> prompt_],
     llm_context |-> ctx,
     tools |-> tools_,
     custom_serializer |-> "selector_serializer"]

SystemContent(text) == [role |-> "system", content |-> text]
UserContent(text) == [role |-> "user", content |-> text]

\* values of user_input.extra_system_prompt
ExtraPrompts == {None, Some(EmptyText), Some(<<"x">>), Some(<<"y">>)}

RECURSIVE SeqsUpTo(_, _)
SeqsUpTo(S, n) ==
    IF n = 0 THEN {<<>>}
    ELSE LET shorter == SeqsUpTo(S, n - 1)
         IN  shorter \cup {Append(s, x) : s \in {t \in shorter : Len(t) = n - 1}, x \in S}

\* values of llm_api_names: None or a list of names, repeats allowed
NameLists == {None} \cup {Some(s) : s \in SeqsUpTo(ApiNames, MaxNames)}

\* ----------------------------------------------------------------- state
VARIABLES
    chat_log,        \* the ChatLog: conversation_id, llm_api, extra_system_prompt, content
    trace,           \* records appended by trace.async_conversation_trace_append
    langfuse_tags,   \* tags set by langfuse_context.update_current_trace
    turn,            \* number of calls of async_update_llm_data started
    pc,              \* position of the running call
    user_input,      \* ConversationInput of the running call
    llm_api_names,   \* argument llm_api_names
    llm_context,     \* local llm_context
    idx,             \* position of the for loop in llm_api_names
    api_instances,   \* local api_instances
    all_tools,       \* local all_tools
    api_prompts,     \* local api_prompts
    prompt,          \* local prompt
    prompt_object,   \* local prompt_object
    result,          \* how the call ended: returned value or raised exception
    failed,          \* history: per processed name, whether its resolution raised
    base_calls,      \* history: calls of async_get_base_prompt in this call
    base_text,       \* history: text the base prompt renderer returned
    source,          \* history: value returned by the await of the composition
    template_from,   \* history: the await of the composition that raised TemplateError
    policy,          \* history: branch of the prompt composition that ran
    composed,        \* history: prompt before the extra system prompt is appended
    pre,             \* history: chat log and trace length when the call started
    stored_extra,    \* history: last non-empty override of a call that returned
    invoked_extra,   \* history: last non-empty override of any call
    requested        \* history: names requested so far, over all calls

chatVars == <<chat_log, trace, langfuse_tags>>
callVars == <<turn, user_input, llm_api_names, llm_context>>
loopVars == <<idx, api_instances, all_tools, api_prompts, failed>>
composeVars == <<prompt, prompt_object, base_calls, base_text, source, template_from, policy>>
histVars == <<composed, pre, stored_extra, invoked_extra, requested>>
vars == <<chatVars, callVars, loopVars, composeVars, histVars, pc, result>>

Pending == [kind |-> "pending", exc |-> "", conversation_id |-> "", value |-> None]
Returned(v) == [kind |-> "return", exc |-> "", conversation_id |-> "", value |-> v]
Raise(e) == [kind |-> "raise", exc |-> e, conversation_id |-> "", value |-> None]
\* RaiseConverseError that drops the conversation id
RaiseConverseError_NoId(cid) == Raise(ConverseError)

\* raise ConverseError("Error rendering prompt", conversation_id=..., response=...)
RaiseConverseError(cid) ==
    [kind |-> "raise", exc |-> ConverseError, conversation_id |-> cid, value |-> None]

NoSnapshot == [chat_log |-> None, ntrace |-> 0]

\* a fresh ChatLog: the leading system message is empty, one user message follows
Init ==
    /\ chat_log = [conversation_id |-> "cid-1",
                   llm_api |-> None,
                   extra_system_prompt |-> None,
                   content |-> <<SystemContent(EmptyText), UserContent(<<"u">>)>>]
    /\ trace = <<>>
    /\ langfuse_tags = {}
    /\ turn = 0
    /\ pc = "idle"
    /\ user_input = [extra_system_prompt |-> None]
    /\ llm_api_names = None
    /\ llm_context = LLMContext(0)
    /\ idx = 1
    /\ api_instances = <<>>
    /\ all_tools = <<>>
    /\ api_prompts = <<>>
    /\ prompt = EmptyText
    /\ prompt_object = None
    /\ result = Pending
    /\ failed = <<>>
    /\ base_calls = 0
    /\ base_text = None
    /\ source = None
    /\ template_from = "none"
    /\ policy = "none"
    /\ composed = None
    /\ pre = NoSnapshot
    /\ stored_extra = None
    /\ invoked_extra = None
    /\ requested = 0

\* `if llm_api_names:` then the for loop, else straight to the composition
LoopEntry(names) == IF TruthyList(names) THEN "get_api" ELSE "compose"

\* AfterName that leaves the loop after the first name
AfterName_StopsEarly(names, k) == "compose"

\* the for loop after the name at position k was handled
AfterName(names, k) == IF k < Len(Val(names)) THEN "get_api" ELSE "compose"

\* the locals of a call that has not run yet
FreshLocals ==
    /\ idx' = 1
    /\ api_instances' = <<>>
    /\ all_tools' = <<>>
    /\ api_prompts' = <<>>
    /\ failed' = <<>>
    /\ prompt' = EmptyText
    /\ prompt_object' = None
    /\ base_calls' = 0
    /\ base_text' = None
    /\ source' = None
    /\ template_from' = "none"
    /\ policy' = "none"
    /\ composed' = None
    /\ result' = Pending

\* lines 22-53: the call starts; the user is looked up only when the context
\* carries a user id
Call ==
    /\ pc = "idle"
    /\ turn < MaxTurns
    /\ \E names \in NameLists, extra \in ExtraPrompts, has_user \in BOOLEAN :
        /\ requested + (IF IsNone(names) THEN 0 ELSE Len(Val(names))) <= MaxRequested
        /\ requested' = requested + (IF IsNone(names) THEN 0 ELSE Len(Val(names)))
        /\ llm_api_names' = names
        /\ user_input' = [extra_system_prompt |-> extra]
        /\ pc' = IF has_user THEN "get_user" ELSE LoopEntry(names)
        /\ invoked_extra' = IF TruthyText(extra) THEN extra ELSE invoked_extra
    /\ turn' = turn + 1
    /\ llm_context' = LLMContext(turn + 1)
    /\ FreshLocals
    /\ langfuse_tags' = {}
    /\ pre' = [chat_log |-> Some(chat_log), ntrace |-> Len(trace)]
    /\ UNCHANGED <<chat_log, trace, stored_extra>>

\* line 50: await hass.auth.async_get_user(...) returns
GetUser ==
    /\ pc = "get_user"
    /\ pc' = LoopEntry(llm_api_names)
    /\ UNCHANGED <<chatVars, callVars, loopVars, composeVars, histVars, result>>

\* lines 61-86, 97-105: one name of the for loop, up to the first await.
\* CustomLLMAPI(...).async_get_api_instance or llm.async_get_api returns an
\* instance, which is appended with its tools, or raises; the handler of
\* HomeAssistantError logs and continues with the next name.
GetApi ==
    /\ pc = "get_api"
    /\ LET api_name == Val(llm_api_names)[idx] IN
       \E out \in GetApiOutcomes :
         IF out.ok
         THEN LET llm_api == ResolvedInstance(api_name, llm_context) IN
              /\ api_instances' = Append(api_instances, llm_api)
              /\ all_tools' = all_tools \o llm_api.tools
              /\ pc' = "api_prompt"
              /\ UNCHANGED <<idx, api_prompts, failed, result>>
         ELSE IF IsInstance(out.exc, HomeAssistantError)
         THEN /\ idx' = idx + 1
              /\ failed' = Append(failed, TRUE)
              /\ pc' = AfterName(llm_api_names, idx)
              /\ UNCHANGED <<api_instances, all_tools, api_prompts, result>>
         ELSE /\ result' = Raise(out.exc)
              /\ pc' = "done"
              /\ UNCHANGED loopVars
    /\ UNCHANGED <<chatVars, callVars, composeVars, histVars>>

\* lines 89-105: `await llm_api.api_prompt` of the instance just appended
\* returns, the text is appended to api_prompts; or it raises and the same
\* handler continues with the next name.
ApiPrompt ==
    /\ pc = "api_prompt"
    /\ LET api_name == Val(llm_api_names)[idx] IN
       \E out \in ApiPromptOutcomes(api_name) :
         IF out.ok
         THEN /\ api_prompts' = Append(api_prompts, PromptTextOf(out.value))
              /\ failed' = Append(failed, FALSE)
              /\ idx' = idx + 1
              /\ pc' = AfterName(llm_api_names, idx)
              /\ UNCHANGED <<api_instances, all_tools, result>>
         ELSE IF IsInstance(out.exc, HomeAssistantError)
         THEN /\ failed' = Append(failed, TRUE)
              /\ idx' = idx + 1
              /\ pc' = AfterName(llm_api_names, idx)
              /\ UNCHANGED <<api_instances, all_tools, api_prompts, result>>
         ELSE /\ result' = Raise(out.exc)
              /\ pc' = "done"
              /\ UNCHANGED loopVars
    /\ UNCHANGED <<chatVars, callVars, composeVars, histVars>>

\* line 117: any(isinstance(api.api, CustomLLMAPI) for api in api_instances)
has_custom_api(insts) == \E k \in 1..Len(insts) : IsCustomLLMAPI(insts[k].api)

\* lines 121, 129, 139: the branch of the composition
Policy(insts) ==
    IF has_custom_api(insts) /\ Len(insts) = 1 THEN "sole"
    ELSE IF Len(insts) = 0 THEN "base"
    ELSE "combined"

\* ComposeFailure whose handler catches every HomeAssistantError
ComposeFailure_CatchesAll(exc, cid) ==
    IF IsInstance(exc, HomeAssistantError) THEN RaiseConverseError(cid) ELSE Raise(exc)

\* lines 155-166: the handler of the composition's try block
ComposeFailure(exc, cid) ==
    IF IsInstance(exc, TemplateError) THEN RaiseConverseError(cid) ELSE Raise(exc)

\* lines 121-128: a single CustomLLMAPI, its prompt is awaited again and used
ComposeSole ==
    /\ pc = "compose"
    /\ Policy(api_instances) = "sole"
    /\ policy' = "sole"
    /\ \E out \in ApiPromptOutcomes(api_instances[1].api) :
         IF out.ok
         THEN /\ prompt' = PromptTextOf(out.value)
              /\ prompt_object' = PromptObjectOf(out.value, prompt_object)
              /\ source' = Some(out.value)
              /\ pc' = "publish"
              /\ UNCHANGED <<result, template_from>>
         ELSE /\ result' = ComposeFailure(out.exc, chat_log.conversation_id)
              /\ template_from' =
                    IF out.exc = TemplateError THEN "api_prompt" ELSE template_from
              /\ pc' = "done"
              /\ UNCHANGED <<prompt, prompt_object, source>>
    /\ UNCHANGED <<chatVars, callVars, loopVars, histVars, base_calls, base_text>>

\* lines 129-138: no instance, the base prompt alone
ComposeBase ==
    /\ pc = "compose"
    /\ Policy(api_instances) = "base"
    /\ policy' = "base"
    /\ base_calls' = base_calls + 1
    /\ \E out \in BasePromptOutcomes :
         IF out.ok
         THEN /\ prompt' = PromptTextOf(out.value)
              /\ prompt_object' = PromptObjectOf(out.value, prompt_object)
              /\ base_text' = Some(out.value.text)
              /\ source' = Some(out.value)
              /\ pc' = "publish"
              /\ UNCHANGED <<result, template_from>>
         ELSE /\ result' = ComposeFailure(out.exc, chat_log.conversation_id)
              /\ template_from' =
                    IF out.exc = TemplateError THEN "base" ELSE template_from
              /\ pc' = "done"
              /\ UNCHANGED <<prompt, prompt_object, base_text, source>>
    /\ UNCHANGED <<chatVars, callVars, loopVars, histVars>>

\* CombinedPrompt with the base prompt joined after the API prompts
CombinedPrompt_BaseLast(base_prompt_text, prompts) ==
    Join(NL, prompts \o <<base_prompt_text>>)

\* CombinedPrompt that joins the API prompts and leaves the base prompt out
CombinedPrompt_FragmentsOnly(base_prompt_text, prompts) == Join(NL, prompts)

\* lines 150-152: "\n".join([base_prompt_text] + api_prompts)
CombinedPrompt(base_prompt_text, prompts) ==
    Join(NL, <<base_prompt_text>> \o prompts)

\* lines 139-153: several instances or an external one, base prompt and
\* the collected API prompts joined by newlines
ComposeCombined ==
    /\ pc = "compose"
    /\ Policy(api_instances) = "combined"
    /\ policy' = "combined"
    /\ base_calls' = base_calls + 1
    /\ \E out \in BasePromptOutcomes :
         IF out.ok
         THEN /\ prompt' = CombinedPrompt(PromptTextOf(out.value), api_prompts)
              /\ prompt_object' = PromptObjectOf(out.value, prompt_object)
              /\ base_text' = Some(out.value.text)
              /\ source' = Some(out.value)
              /\ pc' = "publish"
              /\ UNCHANGED <<result, template_from>>
         ELSE /\ result' = ComposeFailure(out.exc, chat_log.conversation_id)
              /\ template_from' =
                    IF out.exc = TemplateError THEN "base" ELSE template_from
              /\ pc' = "done"
              /\ UNCHANGED <<prompt, prompt_object, base_text, source>>
    /\ UNCHANGED <<chatVars, callVars, loopVars, histVars>>

\* ExtraSystemPrompt that ignores the value stored on the chat log
ExtraSystemPrompt_OverrideOnly(ui, cl) == ui.extra_system_prompt

\* lines 168-171: user_input.extra_system_prompt or chat_log.extra_system_prompt
ExtraSystemPrompt(ui, cl) == PyOr(ui.extra_system_prompt, cl.extra_system_prompt)

\* FinalPrompt without the newline before the extra system prompt
FinalPrompt_NoNewline(p, extra) == IF TruthyText(extra) THEN p \o Val(extra) ELSE p

\* lines 173-175: prompt += "\n" + extra_system_prompt when it is truthy
FinalPrompt(p, extra) == IF TruthyText(extra) THEN p \o <<NL>> \o Val(extra) ELSE p

\* lines 179-198: the value assigned to chat_log.llm_api
EffectiveAPI(insts, tools_, prompt_, ctx) ==
    IF Len(insts) = 0 THEN None
    ELSE IF Len(insts) = 1 THEN Some(insts[1])
    ELSE Some(SyntheticInstance(insts, prompt_, ctx, tools_))

\* SetLeadingMessage that inserts the system message in front of the list
SetLeadingMessage_Inserted(content, text) == <<SystemContent(text)>> \o content

\* line 201: chat_log.content[0] = SystemContent(content=prompt)
SetLeadingMessage(content, text) == [content EXCEPT ![1] = SystemContent(text)]

\* TraceTools that reports no tools whatever API is installed
TraceTools_AlwaysNone(api) == None

\* line 206: chat_log.llm_api.tools if chat_log.llm_api else None
TraceTools(api) == IF IsNone(api) THEN None ELSE Some(Val(api).tools)

\* lines 202-208: the record appended to the trace; "messages" is the
\* chat log's own content list, not a copy
TraceRecord(cl) ==
    [event_type |-> "AGENT_DETAIL",
     messages |-> "chat_log.content",
     tools |-> TraceTools(cl.llm_api)]

\* lines 168-209: no await from here to the return. The extra system prompt
\* is chosen and appended, the API is installed, the extra system prompt is
\* stored, the leading message is overwritten, the trace record is appended
\* and prompt_object is returned.
Publish ==
    /\ pc = "publish"
    /\ LET extra_system_prompt == ExtraSystemPrompt(user_input, chat_log)
           final == FinalPrompt(prompt, extra_system_prompt)
           new_log == [chat_log EXCEPT
                         !.llm_api = EffectiveAPI(api_instances, all_tools, final, llm_context),
                         !.extra_system_prompt = extra_system_prompt,
                         !.content = SetLeadingMessage(chat_log.content, final)]
       IN  /\ composed' = Some(prompt)
           /\ prompt' = final
           /\ langfuse_tags' = IF TruthyText(extra_system_prompt)
                               THEN langfuse_tags \cup {"extra_system_prompt"}
                               ELSE langfuse_tags
           /\ chat_log' = new_log
           /\ trace' = Append(trace, TraceRecord(new_log))
    /\ result' = Returned(prompt_object)
    /\ pc' = "done"
    /\ UNCHANGED <<callVars, loopVars, prompt_object, base_calls, base_text, source,
                   template_from, policy, pre, stored_extra, invoked_extra, requested>>

\* the awaits of the coroutine, where a cancellation is delivered
SuspensionPoints == {"get_user", "get_api", "api_prompt", "compose"}

\* Cancel delivered between the writes to the chat log, as if an await
\* separated the assignment of chat_log.llm_api from the ones after it
Cancel_DuringInstall ==
    /\ pc = "publish"
    /\ chat_log' = [chat_log EXCEPT
                      !.llm_api = EffectiveAPI(api_instances, all_tools, prompt, llm_context)]
    /\ result' = Raise(CancelledError)
    /\ pc' = "done"
    /\ UNCHANGED <<trace, langfuse_tags, callVars, loopVars, composeVars, histVars>>

\* the task running the call is cancelled while it is suspended:
\* CancelledError is not an Exception, no handler of the call catches it
Cancel ==
    /\ pc \in SuspensionPoints
    /\ result' = Raise(CancelledError)
    /\ pc' = "done"
    /\ UNCHANGED <<chatVars, callVars, loopVars, composeVars, histVars>>

\* the caller takes the result; the next call starts from fresh locals
Finish ==
    /\ pc = "done"
    /\ pc' = "idle"
    /\ stored_extra' =
          IF result.kind = "return" /\ TruthyText(user_input.extra_system_prompt)
          THEN user_input.extra_system_prompt ELSE stored_extra
    /\ FreshLocals
    /\ user_input' = [extra_system_prompt |-> None]
    /\ llm_api_names' = None
    /\ pre' = NoSnapshot
    /\ UNCHANGED <<chatVars, turn, llm_context, invoked_extra, requested>>

Next ==
    \/ Call
    \/ GetUser
    \/ GetApi
    \/ ApiPrompt
    \/ ComposeSole
    \/ ComposeBase
    \/ ComposeCombined
    \/ Publish
    \/ Cancel
    \/ Finish

Spec == Init /\ [][Next]_vars

\* ------------------------------------------------------------ properties
Done == pc = "done"
ReturnedNormally == pc = "done" /\ result.kind = "return"

NumNames == IF IsNone(llm_api_names) THEN 0 ELSE Len(Val(llm_api_names))

\* the for loop has handled every requested name
LoopDone == pc \in {"compose", "publish", "done"} /\ Len(failed) = NumNames

RECURSIVE SurvivorsFrom(_, _, _)
SurvivorsFrom(names, f, k) ==
    IF k > Len(f) \/ k > Len(names) THEN <<>>
    ELSE (IF f[k] THEN <<>> ELSE <<names[k]>>) \o SurvivorsFrom(names, f, k + 1)

\* the requested names whose resolution did not raise, in request order
Survivors ==
    IF IsNone(llm_api_names) THEN <<>> ELSE SurvivorsFrom(Val(llm_api_names), failed, 1)

RECURSIVE ApisOf(_)
ApisOf(insts) == IF Len(insts) = 0 THEN <<>> ELSE <<Head(insts).api>> \o ApisOf(Tail(insts))

RECURSIVE FragmentsOf(_)
FragmentsOf(names) ==
    IF Len(names) = 0 THEN <<>>
    ELSE <<NL>> \o PromptText(Head(names)) \o FragmentsOf(Tail(names))

RECURSIVE AllToolsOf(_)
AllToolsOf(names) ==
    IF Len(names) = 0 THEN <<>> ELSE ToolsOf(Head(names)) \o AllToolsOf(Tail(names))

\* the extra system prompt of the running call: the override when non-empty,
\* otherwise the value the chat log held when the call started
ExtraOfCall ==
    IF TruthyText(user_input.extra_system_prompt)
    THEN user_input.extra_system_prompt
    ELSE Val(pre.chat_log).extra_system_prompt

LeadingMessage == chat_log.content[1].content

\* C1: after the collection loop api_instances is the requested list with
\* exactly the names whose resolution raised removed, in request order.
C1_InstancesAreSurvivors ==
    LoopDone => ApisOf(api_instances) = Survivors

\* C2: when the only errors of a call are provider errors (no TemplateError
\* from the base prompt renderer, no cancellation), the call returns normally
\* and uses exactly the providers that did not fail.
C2_ProviderErrorNeverAborts ==
    (Done /\ template_from # "base" /\ result.exc # CancelledError)
        => (result.kind = "return" /\ ApisOf(api_instances) = Survivors)

\* C3: with two or more resolved providers, or one resolved provider other
\* than the CustomLLMAPI, and no extra system prompt, the leading message is
\* the base prompt followed by a newline and the prompt of each resolved
\* provider in resolution order.
C3_CombinedPromptOfSurvivors ==
    (/\ ReturnedNormally
     /\ ~TruthyText(ExtraOfCall)
     /\ \/ Len(Survivors) >= 2
        \/ Len(Survivors) = 1 /\ ~IsCustomLLMAPI(Survivors[1]))
        => (/\ ~IsNone(base_text)
            /\ LeadingMessage = Val(base_text) \o FragmentsOf(Survivors))

C3_Witness ==
    /\ ReturnedNormally
    /\ ~TruthyText(ExtraOfCall)
    /\ Survivors = <<"weather", LLM_API_ID>>
    /\ LeadingMessage = <<"B", NL, "w", NL, "c">>

\* C4: when the CustomLLMAPI is the only provider that resolved, the base
\* prompt renderer is not called in that turn and, with no extra system
\* prompt, the leading message is that provider's own prompt text.
C4_SoleCustomUsesOwnPrompt ==
    (LoopDone /\ Survivors = <<LLM_API_ID>>)
        => (/\ base_calls = 0
            /\ (ReturnedNormally /\ ~TruthyText(ExtraOfCall))
                  => LeadingMessage = PromptText(LLM_API_ID))

\* C5: when no provider resolved (names absent, empty, or all failed) and
\* the base prompt renders, the call returns normally, the leading message
\* (no extra system prompt) is the base prompt alone and chat_log.llm_api
\* is None.
C5_NoProviderUsesBasePrompt ==
    (Done /\ LoopDone /\ Len(Survivors) = 0
          /\ template_from # "base" /\ result.exc # CancelledError)
        => (/\ result.kind = "return"
            /\ IsNone(chat_log.llm_api)
            /\ ~IsNone(base_text)
            /\ ~TruthyText(ExtraOfCall) => LeadingMessage = Val(base_text))

\* C6: when at least one provider resolved and the call returns, the tools
\* of the API installed on the chat log are the concatenation of the tools of
\* the resolved providers, in resolution order, and of no other provider.
C6_ToolsOfSurvivors ==
    (ReturnedNormally /\ Len(Survivors) >= 1)
        => (/\ ~IsNone(chat_log.llm_api)
            /\ Val(chat_log.llm_api).tools = AllToolsOf(Survivors))

RECURSIVE LinesOf(_)
LinesOf(texts) ==
    IF Len(texts) = 0 THEN <<>> ELSE <<NL>> \o Head(texts) \o LinesOf(Tail(texts))

\* the prompt the branch that ran is to produce
ExpectedComposed ==
    IF policy = "sole" THEN PromptText(api_instances[1].api)
    ELSE IF policy = "base" THEN Val(base_text)
    ELSE Val(base_text) \o LinesOf(api_prompts)

\* C7: in every call that returns, under each branch of the composition, the
\* leading message is the composed prompt, followed by a newline and the
\* extra system prompt when that is non-empty and by nothing otherwise.
C7_ExtraPromptAppendedLast ==
    ReturnedNormally =>
        /\ ~IsNone(composed)
        /\ Val(composed) = ExpectedComposed
        /\ LeadingMessage =
              IF TruthyText(ExtraOfCall)
              THEN Val(composed) \o <<NL>> \o Val(ExtraOfCall)
              ELSE Val(composed)

\* a call without override under the sole-CustomLLMAPI branch appends the
\* extra system prompt stored by the call before it
C7_Witness ==
    /\ ReturnedNormally
    /\ policy = "sole"
    /\ ~TruthyText(user_input.extra_system_prompt)
    /\ LeadingMessage = <<"c", NL, "x">>

\* C8: when the base prompt renderer raises TemplateError the call raises
\* ConverseError with the chat log's conversation id, the chat log is as it
\* was when the call started and no trace record was appended.
C8_TemplateErrorLeavesChatLog ==
    (Done /\ template_from = "base")
        => (/\ result.kind = "raise"
            /\ result.exc = ConverseError
            /\ result.conversation_id = chat_log.conversation_id
            /\ chat_log = Val(pre.chat_log)
            /\ Len(trace) = pre.ntrace)

\* the failing call follows a call that installed an API and a prompt
C8_Witness ==
    /\ Done
    /\ template_from = "base"
    /\ ~IsNone(chat_log.llm_api)
    /\ Len(trace) = 1
    /\ TruthyText(user_input.extra_system_prompt)
    /\ LeadingMessage # EmptyText

C10_InvokedOverridePersists ==
    (/\ ReturnedNormally
     /\ ~TruthyText(user_input.extra_system_prompt)
     /\ TruthyText(invoked_extra))
        => (/\ chat_log.extra_system_prompt = invoked_extra
            /\ LeadingMessage = Val(composed) \o <<NL>> \o Val(invoked_extra))

\* C10 amended: after a call that returned with a non-empty override X, a
\* later call without override that returns uses X, until a call that returns
\* supplies a new non-empty override.
C10_StoredOverridePersists ==
    (/\ ReturnedNormally
     /\ ~TruthyText(user_input.extra_system_prompt)
     /\ TruthyText(stored_extra))
        => (/\ chat_log.extra_system_prompt = stored_extra
            /\ LeadingMessage = Val(composed) \o <<NL>> \o Val(stored_extra))

C10_Witness ==
    /\ ReturnedNormally
    /\ turn = 2
    /\ user_input.extra_system_prompt = None
    /\ stored_extra = Some(<<"y">>)
    /\ chat_log.extra_system_prompt = Some(<<"y">>)


\* the chat log and the trace are as they were when the call started
NothingInstalled == chat_log = Val(pre.chat_log) /\ Len(trace) = pre.ntrace

\* C11: while the call is suspended at an await nothing of the turn has been
\* written, and a call that ends cancelled leaves llm_api,
\* extra_system_prompt and the leading message as they were and appends no
\* trace record.
C11_CancelInstallsNothing ==
    /\ pc \in SuspensionPoints => NothingInstalled
    /\ (Done /\ result.exc = CancelledError) => NothingInstalled

\* cancelled in the second call, with instances collected, after a first call
\* that installed an API
C11_Witness ==
    /\ Done
    /\ result.exc = CancelledError
    /\ turn = 2
    /\ Len(api_instances) >= 1
    /\ ~IsNone(chat_log.llm_api)
    /\ TruthyText(user_input.extra_system_prompt)

\* C12: when more than one provider resolved, the installed API is a
\* synthetic instance with the api of the first resolved provider, the call's
\* LLMContext, the tools of all resolved providers and, as api_prompt, the
\* composed prompt (before any extra system prompt).
C12_SyntheticInstance ==
    (ReturnedNormally /\ Len(Survivors) >= 2)
        => (/\ ~IsNone(chat_log.llm_api)
            /\ Val(chat_log.llm_api) =
                  [api |-> Survivors[1],
                   api_prompt |-> [awaitable |-> FALSE, text |-> Val(composed)],
                   llm_context |-> llm_context,
                   tools |-> AllToolsOf(Survivors),
                   custom_serializer |-> "selector_serializer"])

\* C13: when exactly one provider resolved and the call returns, the
\* installed API is that provider's own instance, unchanged.
C13_SingleInstanceUnchanged ==
    (ReturnedNormally /\ Len(Survivors) = 1)
        => chat_log.llm_api = Some(ResolvedInstance(Survivors[1], llm_context))


\* C14: the names are handled one at a time in request order: while a name
\* is being obtained or its prompt evaluated, every name before it has been
\* settled and no name after it has been started; the prompt being evaluated
\* is that of the instance appended last; the composition (and with it the
\* base prompt) starts only when every name has been settled.
C14_StrictlySequential ==
    /\ pc \in {"get_api", "api_prompt"} =>
          /\ idx <= NumNames
          /\ Len(failed) = idx - 1
    /\ pc = "api_prompt" =>
          /\ Len(api_instances) >= 1
          /\ api_instances[Len(api_instances)].api = Val(llm_api_names)[idx]
    /\ (base_calls > 0 \/ policy # "none") => Len(failed) = NumNames

\* the second name's prompt is awaited after the first name was settled
C14_Witness ==
    /\ pc = "api_prompt"
    /\ idx = 2
    /\ failed = <<FALSE>>
    /\ Len(api_instances) = 2

\* the prompt object the prompt value carries, None for a str
HandleOf(p) == IF p.isTuple THEN Some(p.handle) ELSE None

\* C15: the call returns the prompt object of the prompt the composition
\* awaited (the sole CustomLLMAPI's prompt, or the base prompt), None when
\* that was a str; under the combined branch never the prompt object of an
\* API prompt; the extra system prompt does not change it.
C15_ReturnsPromptObjectOfSource ==
    ReturnedNormally =>
        /\ ~IsNone(source)
        /\ result.value = HandleOf(Val(source))
        /\ policy = "sole" => Val(source) \in ApiPromptValues(LLM_API_ID)
        /\ policy \in {"base", "combined"} =>
              /\ Val(source) \in BasePromptValues
              /\ result.value \in {None, Some("lf_base")}

\* combined branch with the CustomLLMAPI among the instances and an extra
\* system prompt: the base prompt's object is returned
C15_Witness ==
    /\ ReturnedNormally
    /\ policy = "combined"
    /\ has_custom_api(api_instances)
    /\ TruthyText(ExtraOfCall)
    /\ result.value = Some("lf_base")


\* the list a trace record's "messages" refers to
MessagesOf(rec) == IF rec.messages = "chat_log.content" THEN chat_log.content ELSE <<>>

\* C16: a call that returns has appended exactly one trace record, whose
\* messages start with the system message holding the final prompt and whose
\* tools are those of the installed API, None when none is installed; a call
\* that raised has appended none.
C16_OneTraceRecordPerTurn ==
    Done =>
        IF result.kind = "return"
        THEN /\ Len(trace) = pre.ntrace + 1
             /\ LET rec == trace[Len(trace)] IN
                  /\ MessagesOf(rec)[1] = [role |-> "system", content |-> prompt]
                  /\ rec.tools = IF IsNone(chat_log.llm_api) THEN None
                                 ELSE Some(Val(chat_log.llm_api).tools)
        ELSE Len(trace) = pre.ntrace

\* second record with the tools of a synthetic instance, after a call that
\* installed no API
C16_Witness ==
    /\ ReturnedNormally
    /\ Len(trace) = 2
    /\ trace[1].tools = None
    /\ trace[2].tools = Some(<<"t1", "t2", "t3">>)

\* C17 as stated: at the end of the composition, when the base prompt was
\* rendered or a provider resolved, the composed prompt is not empty.
C17_ComposedNeverEmpty ==
    (pc = "publish" /\ (~IsNone(base_text) \/ Len(Survivors) >= 1))
        => prompt # EmptyText

\* C17 amended: at the end of the composition the composed prompt is not
\* empty when the prompt the composition awaited has a non-empty text, or
\* when the combined branch joined at least one API prompt.
C17_ComposedNonEmptyFromSource ==
    (/\ pc = "publish"
     /\ \/ Val(source).text # EmptyText
        \/ policy = "combined" /\ Len(api_prompts) >= 1)
        => prompt # EmptyText

\* an empty base prompt joined with one API prompt
C17_Witness ==
    /\ pc = "publish"
    /\ policy = "combined"
    /\ Val(source).text = EmptyText
    /\ prompt = <<NL, "w">>

\* C18: after the loop api_prompts has one entry per entry of api_instances,
\* in the same order, and all_tools holds the tools of exactly the instances
\* in api_instances.
C18_AccumulatorsAligned ==
    LoopDone =>
        /\ Len(api_prompts) = Len(api_instances)
        /\ \A k \in 1..Len(api_instances) :
              api_prompts[k] = PromptText(api_instances[k].api)
        /\ all_tools = AllToolsOf(ApisOf(api_instances))

\* C19: a call that returns leaves the length of chat_log.content and every
\* entry after the first as they were, the first entry is a system message
\* holding the final prompt; conversation_id is not modified by a call.
C19_OnlyLeadingMessageOverwritten ==
    /\ ReturnedNormally =>
          LET old == Val(pre.chat_log).content IN
          /\ Len(chat_log.content) = Len(old)
          /\ \A k \in 2..Len(old) : chat_log.content[k] = old[k]
          /\ chat_log.content[1] = [role |-> "system", content |-> prompt]
    /\ pc # "idle" => chat_log.conversation_id = Val(pre.chat_log).conversation_id

\* the second call replaces the prompt the first call had installed
C19_Witness ==
    /\ ReturnedNormally
    /\ turn = 2
    /\ Val(pre.chat_log).content[1].content # EmptyText
    /\ chat_log.content[1].content # Val(pre.chat_log).content[1].content

====
